---- MODULE Spec2Model ----
(***************************************************************************)
(* A model of the settlement ledger (server/models/TransactionSettlement)  *)
(* and of the removeMember mutation (server/graphql/v2/mutation/           *)
(* MemberMutations).  Tables are modelled as functions from the row id to  *)
(* the row; a raw SQL query is modelled by the set of rows it selects.     *)
(*                                                                         *)
(* Three specifications share the variables:                               *)
(*   Spec        the settlement operations that write (create, update,     *)
(*               revert), over a small ledger;                             *)
(*   SpecQuery   the two raw SQL queries, over tables drawn from the whole *)
(*               column domains;                                           *)
(*   SpecMember  the removeMember mutation over a Members table.           *)
(***************************************************************************)
EXTENDS Integers, FiniteSets, Sequences, TLC

VARIABLES
  Transactions,   \* table "Transactions": id -> row
  Settlements,    \* table "TransactionSettlements": sequence, the id is the index
  Expenses,       \* table "Expenses": id -> [amount]
  ExpenseItems,   \* table "ExpenseItems": id -> [ExpenseId, amount, deletedAt]
  Members,        \* table "Members": id -> row
  last            \* the last call: its name, its outcome, what it returned

vars == <<Transactions, Settlements, Expenses, ExpenseItems, Members, last>>

-----------------------------------------------------------------------------
(* Values *)

\* SQL NULL in a date column, and a date that is set
NULL == "NULL"
DATE == "DATE"

\* ExpenseId is nullable (allowNull: true)
NoExpense == 0

\* a parameter left out (expenseId: number = undefined)
Undefined == -1

\* what Array.prototype.find returns when no element satisfies the predicate
NoItem == 0

NoError == "none"

TransactionSettlementStatus == {"OWED", "INVOICED", "SETTLED"}

\* the largest number of rows of TransactionSettlements
MaxSettlements == 2

\* the number of rows of Members
NumMembers == 2

Groups == {"g1", "g2"}
Kinds == {"PLATFORM_TIP", "CONTRIBUTION"}
CollectiveIds == {1, 2}
ExpenseIds == {1}

TransactionRow ==
  [TransactionGroup : Groups, kind : Kinds, type : {"CREDIT", "DEBIT"},
   isDebt : BOOLEAN, deletedAt : {NULL, DATE},
   CollectiveId : CollectiveIds, HostCollectiveId : CollectiveIds]

SettlementIds == 1..Len(Settlements)

SameGroupAndKind(a, b) ==
  a.TransactionGroup = b.TransactionGroup /\ a.kind = b.kind

-----------------------------------------------------------------------------
(* TransactionSettlement: the writes *)

\* variant of TransactionSettlementCreateAttributes that hard-codes the kind
\* instead of taking the transaction's; C5 does not hold of it
CreateAttributesFixedKind(transaction, status) ==
  [TransactionGroup |-> transaction.TransactionGroup,
   kind |-> "PLATFORM_TIP",
   status |-> status,
   ExpenseId |-> NoExpense,
   deletedAt |-> NULL]

\* the attributes createForTransaction passes to TransactionSettlement.create
TransactionSettlementCreateAttributes(transaction, status) ==
  [TransactionGroup |-> transaction.TransactionGroup,
   kind |-> transaction.kind,
   status |-> status,
   ExpenseId |-> NoExpense,
   deletedAt |-> NULL]

\* static createForTransaction(transaction, status = OWED)
createForTransaction(t, status) ==
  /\ t \in DOMAIN Transactions
  /\ status \in TransactionSettlementStatus
  /\ Len(Settlements) < MaxSettlements
  /\ Settlements' =
       Append(Settlements, TransactionSettlementCreateAttributes(Transactions[t], status))
  /\ last' = [op |-> "createForTransaction", err |-> NoError]
  /\ UNCHANGED <<Transactions, Expenses, ExpenseItems, Members>>

\* variant of UpdateWhere in which an empty Op.or restricts nothing; C9 does
\* not hold of it
UpdateWhereEmptyMatchesAll(transactions, row) ==
  /\ row.deletedAt = NULL
  /\ \/ transactions = {}
     \/ \E t \in transactions : SameGroupAndKind(Transactions[t], row)

\* the where clause of updateTransactionsSettlementStatus: an Op.or over one
\* {TransactionGroup, kind} per transaction (none selects nothing), on a
\* paranoid model (deleted rows are not updated)
UpdateWhere(transactions, row) ==
  /\ row.deletedAt = NULL
  /\ \E t \in transactions : SameGroupAndKind(Transactions[t], row)

\* newData: { status }, plus ExpenseId when expenseId !== undefined
UpdateRow(row, status, expenseId) ==
  [row EXCEPT !.status = status,
              !.ExpenseId = IF expenseId # Undefined THEN expenseId ELSE @]

\* static updateTransactionsSettlementStatus(transactions, status, expenseId = undefined)
updateTransactionsSettlementStatus(transactions, status, expenseId) ==
  /\ transactions \subseteq DOMAIN Transactions
  /\ status \in TransactionSettlementStatus
  /\ expenseId \in {Undefined, NoExpense} \cup ExpenseIds
  /\ Settlements' =
       [i \in SettlementIds |->
          IF UpdateWhere(transactions, Settlements[i])
          THEN UpdateRow(Settlements[i], status, expenseId)
          ELSE Settlements[i]]
  /\ last' = [op |-> "updateTransactionsSettlementStatus", err |-> NoError,
              transactions |-> transactions, status |-> status,
              expenseId |-> expenseId]
  /\ UNCHANGED <<Transactions, Expenses, ExpenseItems, Members>>

\* instance.destroy() on a paranoid model sets deletedAt
destroy(row) == [row EXCEPT !.deletedAt = DATE]

\* this.getExpense(...): the expense of ExpenseId, null when there is none
getExpense(settlement) == settlement.ExpenseId

\* expense.items (include: [{ association: 'items' }]): the items not deleted
items(db, expense) ==
  {i \in DOMAIN db.ExpenseItems :
     /\ db.ExpenseItems[i].ExpenseId = expense
     /\ db.ExpenseItems[i].deletedAt = NULL}

\* expense.items.find(item => false)
find(expenseItems) == NoItem

\* the database calls of the INVOICED branch that may be rejected
DbFailures == {"none", "getExpense", "update", "destroy"}

\* the callback passed to sequelize.transaction in the INVOICED branch; db is
\* what the SQL transaction sees, the result is the error thrown (if any) and
\* what the SQL transaction has written
InvoicedCallback(db, settlement, dbFailure) ==
  IF dbFailure = "getExpense" THEN [err |-> "DatabaseError", db |-> db]
  ELSE LET expense == getExpense(settlement) IN
    IF expense = NoExpense THEN [err |-> "TypeError", db |-> db]
    ELSE LET item == find(items(db, expense)) IN
      IF item = NoItem THEN [err |-> "TypeError", db |-> db]
      ELSE IF dbFailure = "update" THEN [err |-> "DatabaseError", db |-> db]
      ELSE LET updated ==
                 [db EXCEPT !.Expenses[expense].amount =
                              @ - db.ExpenseItems[item].amount] IN
        IF dbFailure = "destroy" THEN [err |-> "DatabaseError", db |-> updated]
        ELSE [err |-> NoError,
              db |-> [updated EXCEPT !.ExpenseItems[item].deletedAt = DATE]]

\* variant of transaction that rolls back but does not rethrow; C10 does not
\* hold of it
transactionSwallowingError(db, result) ==
  IF result.err # NoError THEN [err |-> NoError, db |-> db] ELSE result

\* sequelize.transaction(callback): commit when the callback returns, roll
\* back and rethrow when it throws
transaction(db, result) ==
  IF result.err # NoError THEN [err |-> result.err, db |-> db] ELSE result

\* revertSettlementForRefund(refundTransaction) on the settlement of id s,
\* loaded from the table (a paranoid find returns no deleted row)
revertSettlementForRefund(s, refundTransaction, dbFailure) ==
  /\ s \in SettlementIds
  /\ Settlements[s].deletedAt = NULL
  /\ refundTransaction \in DOMAIN Transactions
  /\ dbFailure \in DbFailures
  /\ LET this == Settlements[s] IN
     CASE this.status = "OWED" ->
            /\ dbFailure = "none"
            /\ Settlements' = [Settlements EXCEPT ![s] = destroy(this)]
            /\ last' = [op |-> "revertSettlementForRefund", err |-> NoError,
                        status |-> "OWED", s |-> s]
            /\ UNCHANGED <<Expenses, ExpenseItems>>
       [] this.status = "INVOICED" ->
            LET db == [Expenses |-> Expenses, ExpenseItems |-> ExpenseItems]
                result == transaction(db, InvoicedCallback(db, this, dbFailure))
            IN /\ Expenses' = result.db.Expenses
               /\ ExpenseItems' = result.db.ExpenseItems
               /\ last' = [op |-> "revertSettlementForRefund", err |-> result.err,
                           status |-> "INVOICED", s |-> s]
               /\ UNCHANGED Settlements
       [] this.status = "SETTLED" ->
            /\ dbFailure = "none"
            /\ Len(Settlements) < MaxSettlements
            /\ Settlements' =
                 Append(Settlements,
                        TransactionSettlementCreateAttributes(
                          Transactions[refundTransaction], "OWED"))
            /\ last' = [op |-> "revertSettlementForRefund", err |-> NoError,
                        status |-> "SETTLED", s |-> s]
            /\ UNCHANGED <<Expenses, ExpenseItems>>
  /\ UNCHANGED <<Transactions, Members>>

-----------------------------------------------------------------------------
(* TransactionSettlement: the raw SQL queries *)

\* variant of DebtJoin without ts."deletedAt" IS NULL; C4 does not hold of it
DebtJoinWithDeleted ==
  {r \in (DOMAIN Transactions) \X SettlementIds :
     /\ SameGroupAndKind(Transactions[r[1]], Settlements[r[2]])
     /\ Transactions[r[1]].type = "CREDIT"
     /\ Transactions[r[1]].isDebt
     /\ Transactions[r[1]].deletedAt = NULL}

\* INNER JOIN "TransactionSettlements" ts ON t."TransactionGroup" =
\* ts."TransactionGroup" AND t."kind" = ts."kind", with the WHERE clause the
\* two queries share; a row of the join is <<transaction id, settlement id>>
DebtJoin ==
  {r \in (DOMAIN Transactions) \X SettlementIds :
     /\ SameGroupAndKind(Transactions[r[1]], Settlements[r[2]])
     /\ Transactions[r[1]].type = "CREDIT"
     /\ Transactions[r[1]].isDebt
     /\ Transactions[r[1]].deletedAt = NULL
     /\ Settlements[r[2]].deletedAt = NULL}

\* ${settlementStatus ? 'AND ts."status" = :settlementStatus' : ''}
StatusClause(settlementStatus, r) ==
  settlementStatus # NULL => Settlements[r[2]].status = settlementStatus

\* static getHostDebts(hostId, settlementStatus = undefined): the rows selected
getHostDebts(hostId, settlementStatus) ==
  {r \in DebtJoin : StatusClause(settlementStatus, r)}

\* variant of OwedClause that forgets the status; C8 does not hold of it
OwedClauseAnyStatus(r) == Settlements[r[2]].status \in TransactionSettlementStatus

\* AND ts."status" = 'OWED'
OwedClause(r) == Settlements[r[2]].status = "OWED"

\* GROUP BY c.id: one row per collective of the join
GroupByCollective(rows) ==
  [c \in {Transactions[r[1]].CollectiveId : r \in rows} |-> 1]

\* "Collectives" c INNER JOIN "Transactions" t ON t."CollectiveId" = c.id
\* INNER JOIN "TransactionSettlements" ts ... WHERE ... AND ts."status" = 'OWED'
OwedJoin ==
  {r \in DebtJoin :
     Transactions[r[1]].CollectiveId \in CollectiveIds /\ OwedClause(r)}

\* static getAccountsWithOwedSettlements(): the result maps each collective
\* id returned to the number of rows returned for it
getAccountsWithOwedSettlements == GroupByCollective(OwedJoin)

GetHostDebts(hostId, settlementStatus) ==
  /\ hostId \in CollectiveIds
  /\ settlementStatus \in TransactionSettlementStatus \cup {NULL}
  /\ last' = [op |-> "getHostDebts", err |-> NoError, hostId |-> hostId,
              settlementStatus |-> settlementStatus,
              result |-> getHostDebts(hostId, settlementStatus)]
  /\ UNCHANGED <<Transactions, Settlements, Expenses, ExpenseItems, Members>>

GetAccountsWithOwedSettlements ==
  /\ last' = [op |-> "getAccountsWithOwedSettlements", err |-> NoError,
              result |-> getAccountsWithOwedSettlements]
  /\ UNCHANGED <<Transactions, Settlements, Expenses, ExpenseItems, Members>>

-----------------------------------------------------------------------------
(* MemberMutations.removeMember *)

\* values of the MemberRole enum, and roles of the rows of Members
MemberRoles == {"ADMIN", "MEMBER", "ACCOUNTANT", "BACKER"}
RowRoles == {"ADMIN", "MEMBER", "BACKER"}

\* variant of RemovableRoles that lets backers be removed; C7 does not hold
\* of it
RemovableRolesWithBacker == {"ACCOUNTANT", "ADMIN", "MEMBER", "BACKER"}

\* the roles removeMember accepts
RemovableRoles == {"ACCOUNTANT", "ADMIN", "MEMBER"}

\* req.remoteUser: nobody, or a user with the collectives
\* isAdminOfCollective answers true for
NoUser == [loggedIn |-> FALSE, adminOf |-> {}]
RemoteUsers ==
  {NoUser} \cup [loggedIn : {TRUE}, adminOf : {{}} \cup {{c} : c \in CollectiveIds}]

\* variant of removeMemberError that checks the role before the admin; C6
\* does not hold of it
removeMemberErrorRoleFirst(remoteUser, account, role) ==
  IF ~remoteUser.loggedIn THEN "Unauthorized"
  ELSE IF role \notin RemovableRoles THEN "Forbidden"
  ELSE IF account \notin remoteUser.adminOf THEN "Unauthorized"
  ELSE NoError

\* the checks of resolve, in order: the error thrown, NoError when none is
removeMemberError(remoteUser, account, role) ==
  IF ~remoteUser.loggedIn THEN "Unauthorized"
  ELSE IF account \notin remoteUser.adminOf THEN "Unauthorized"
  ELSE IF role \notin RemovableRoles THEN "Forbidden"
  ELSE NoError

\* models.Member.update({ deletedAt: new Date() }, { where: { id: memberAccount.id } })
RemoveWhere(id, memberAccount, account, role) == id = memberAccount

\* removeMember.resolve(_, { memberAccount, account, role }, req), both
\* account references resolving to an account
removeMember(remoteUser, memberAccount, account, role) ==
  /\ remoteUser \in RemoteUsers
  /\ memberAccount \in CollectiveIds
  /\ account \in CollectiveIds
  /\ role \in MemberRoles \cup {"undefined"}
  /\ LET err == removeMemberError(remoteUser, account, role) IN
     /\ Members' =
          IF err # NoError THEN Members
          ELSE [id \in DOMAIN Members |->
                  IF RemoveWhere(id, memberAccount, account, role)
                  THEN [Members[id] EXCEPT !.deletedAt = DATE]
                  ELSE Members[id]]
     /\ last' = [op |-> "removeMember", err |-> err,
                 loggedIn |-> remoteUser.loggedIn,
                 isAdmin |-> (account \in remoteUser.adminOf),
                 role |-> role]
  /\ UNCHANGED <<Transactions, Settlements, Expenses, ExpenseItems>>

-----------------------------------------------------------------------------
(* Specifications *)

Idle == [op |-> "none", err |-> NoError]

\* an expense of two items, amount their sum
InitExpenses ==
  /\ Expenses = [e \in ExpenseIds |-> [amount |-> 3]]
  /\ ExpenseItems = <<[ExpenseId |-> 1, amount |-> 1, deletedAt |-> NULL],
                      [ExpenseId |-> 1, amount |-> 2, deletedAt |-> NULL]>>

\* Spec: a ledger of two debts; the second has the group of the first and
\* another kind, or its kind and another group
Init ==
  /\ \E g \in Groups, k \in Kinds :
       /\ (g = "g1") # (k = "PLATFORM_TIP")
       /\ Transactions =
           <<[TransactionGroup |-> "g1", kind |-> "PLATFORM_TIP", type |-> "CREDIT",
              isDebt |-> TRUE, deletedAt |-> NULL,
              CollectiveId |-> 1, HostCollectiveId |-> 1],
            [TransactionGroup |-> g, kind |-> k, type |-> "CREDIT",
             isDebt |-> TRUE, deletedAt |-> NULL,
             CollectiveId |-> 2, HostCollectiveId |-> 2]>>
  /\ Settlements = <<>>
  /\ InitExpenses
  /\ Members = <<>>
  /\ last = Idle

CreateForTransaction ==
  \E t \in DOMAIN Transactions, status \in TransactionSettlementStatus :
    createForTransaction(t, status)

UpdateTransactionsSettlementStatus ==
  \E transactions \in SUBSET (DOMAIN Transactions),
     status \in TransactionSettlementStatus,
     expenseId \in {Undefined, NoExpense} \cup ExpenseIds :
    updateTransactionsSettlementStatus(transactions, status, expenseId)

RevertSettlementForRefund ==
  \E s \in SettlementIds, refundTransaction \in DOMAIN Transactions,
     dbFailure \in DbFailures :
    revertSettlementForRefund(s, refundTransaction, dbFailure)

Next ==
  \/ CreateForTransaction
  \/ UpdateTransactionsSettlementStatus
  \/ RevertSettlementForRefund

Spec == Init /\ [][Next]_vars

\* SpecQuery: one transaction (its group and kind fixed: the join compares
\* them for equality only) and two settlements, of any column values, queried
QuerySettlementIds == {1, 2}

SettlementRow ==
  [TransactionGroup : Groups, kind : Kinds, status : TransactionSettlementStatus,
   ExpenseId : {NoExpense}, deletedAt : {NULL, DATE}]

InitQuery ==
  /\ Transactions \in
       [{1} -> {t \in TransactionRow :
                  t.TransactionGroup = "g1" /\ t.kind = "PLATFORM_TIP"}]
  /\ Settlements \in [QuerySettlementIds -> SettlementRow]
  /\ InitExpenses
  /\ Members = <<>>
  /\ last = Idle

NextQuery ==
  \/ \E hostId \in CollectiveIds,
        settlementStatus \in TransactionSettlementStatus \cup {NULL} :
       GetHostDebts(hostId, settlementStatus)
  \/ GetAccountsWithOwedSettlements

SpecQuery == InitQuery /\ [][NextQuery]_vars

\* SpecMember: a Members table of any memberships, each in one row, none
\* deleted yet
MemberRow ==
  [MemberCollectiveId : CollectiveIds, CollectiveId : CollectiveIds,
   role : RowRoles, deletedAt : {NULL}]

InitMember ==
  /\ Members \in [1..NumMembers -> MemberRow]
  /\ \A i, j \in 1..NumMembers : Members[i] = Members[j] => i = j
  /\ Transactions = <<>>
  /\ Settlements = <<>>
  /\ InitExpenses
  /\ last = Idle

RemoveMember ==
  \E remoteUser \in RemoteUsers, memberAccount \in CollectiveIds,
     account \in CollectiveIds, role \in MemberRoles \cup {"undefined"} :
    removeMember(remoteUser, memberAccount, account, role)

NextMember == RemoveMember

SpecMember == InitMember /\ [][NextMember]_vars

-----------------------------------------------------------------------------
(* Properties of the settlement writes (Spec) *)

Reverted(status) ==
  /\ last.op = "revertSettlementForRefund"
  /\ last.status = status

\* this step is revertSettlementForRefund(t) on settlement s, which had the
\* given status, with database failure f
Reverts(s, status, t, f) ==
  /\ last'.op = "revertSettlementForRefund"
  /\ last'.s = s
  /\ Settlements[s].status = status
  /\ revertSettlementForRefund(s, t, f)

\* the items of the expense a settlement is linked to
LinkedItems(settlement) ==
  {i \in DOMAIN ExpenseItems :
     /\ settlement.ExpenseId # NoExpense
     /\ ExpenseItems[i].ExpenseId = settlement.ExpenseId
     /\ ExpenseItems[i].deletedAt = NULL}

\* the expense amount went down by the amount of one of the settlement's
\* items, and that item was deleted
ItemRemoved(settlement) ==
  \E i \in LinkedItems(settlement) :
    /\ ExpenseItems' = [ExpenseItems EXCEPT ![i].deletedAt = DATE]
    /\ Expenses' = [Expenses EXCEPT ![settlement.ExpenseId].amount =
                                      @ - ExpenseItems[i].amount]

\* C1: reverting an INVOICED settlement that is linked to an expense with
\* items, no database call failing, completes without error, decreases the
\* expense's amount by the amount of one of its items and deletes that item.
C1_InvoicedRevertRemovesItem ==
  [][\A s \in SettlementIds, t \in DOMAIN Transactions :
       ( /\ Reverts(s, "INVOICED", t, "none")
         /\ LinkedItems(Settlements[s]) # {} )
       => /\ last'.err = NoError
          /\ ItemRemoved(Settlements[s])]_vars

\* C10: the INVOICED branch is atomic: whichever database call fails or none,
\* either the call returns, the amount is reduced and the item deleted, or
\* the call rejects and expenses, items and settlements are as before.
C10_InvoicedRevertAtomic ==
  [][\A s \in SettlementIds, t \in DOMAIN Transactions, f \in DbFailures :
       Reverts(s, "INVOICED", t, f)
       => \/ /\ last'.err = NoError
             /\ ItemRemoved(Settlements[s])
             /\ UNCHANGED Settlements
          \/ /\ last'.err # NoError
             /\ UNCHANGED <<Expenses, ExpenseItems, Settlements>>]_vars

\* an INVOICED settlement linked to an expense with items was reverted, the
\* call rejected, and the expense still has its amount and its items
C10_Witness ==
  /\ Reverted("INVOICED")
  /\ last.err # NoError
  /\ Cardinality(LinkedItems(Settlements[last.s])) = 2
  /\ Expenses[Settlements[last.s].ExpenseId].amount = 3

\* the transactions a settlement is the settlement of
TransactionsOf(settlement) ==
  {t \in DOMAIN Transactions : SameGroupAndKind(Transactions[t], settlement)}

HostDebtTransactions ==
  {r[1] : r \in UNION {getHostDebts(h, NULL) : h \in CollectiveIds}}

OwedTransactions == {r[1] : r \in OwedJoin}

\* C4 as stated: reverting an OWED settlement deletes it, creates no
\* settlement, and afterwards its transaction is in neither query.
C4_OwedRevertHidesTransaction ==
  [][\A s \in SettlementIds, t \in DOMAIN Transactions :
       Reverts(s, "OWED", t, "none")
       => /\ Settlements'[s].deletedAt # NULL
          /\ Len(Settlements') = Len(Settlements)
          /\ TransactionsOf(Settlements[s]) \cap HostDebtTransactions' = {}
          /\ TransactionsOf(Settlements[s]) \cap OwedTransactions' = {}]_vars

\* the other settlements of the same group and kind that are not deleted
LiveTwins(s) ==
  {i \in SettlementIds \ {s} :
     /\ SameGroupAndKind(Settlements[i], Settlements[s])
     /\ Settlements[i].deletedAt = NULL}

\* C4 amended: reverting an OWED settlement soft-deletes it and creates or
\* changes no other settlement; afterwards that settlement is in no row of
\* either query, and its transaction is in getHostDebts only when another
\* non-deleted settlement has its group and kind, in
\* getAccountsWithOwedSettlements only when such a settlement is OWED.
C4_OwedRevertDeletesSettlement ==
  [][\A s \in SettlementIds, t \in DOMAIN Transactions :
       Reverts(s, "OWED", t, "none")
       => /\ Settlements' = [Settlements EXCEPT ![s].deletedAt = DATE]
          /\ \A r \in DebtJoin' : r[2] # s
          /\ LiveTwins(s) = {}
               => TransactionsOf(Settlements[s]) \cap HostDebtTransactions' = {}
          /\ (\A i \in LiveTwins(s) : Settlements[i].status # "OWED")
               => TransactionsOf(Settlements[s]) \cap OwedTransactions' = {}]_vars

\* an OWED settlement was reverted and is deleted, and its transaction is
\* gone from both queries
C4_Witness ==
  /\ Reverted("OWED")
  /\ Settlements[last.s].deletedAt = DATE
  /\ TransactionsOf(Settlements[last.s]) # {}
  /\ TransactionsOf(Settlements[last.s]) \cap HostDebtTransactions = {}
  /\ TransactionsOf(Settlements[last.s]) \cap OwedTransactions = {}

\* C5: reverting a SETTLED settlement creates exactly one settlement, OWED,
\* with the group and kind of the refund transaction, and leaves every
\* settlement there was (the reverted one too) as it was.
C5_SettledRevertCreatesOwed ==
  [][\A s \in SettlementIds, t \in DOMAIN Transactions :
       Reverts(s, "SETTLED", t, "none")
       => /\ Len(Settlements') = Len(Settlements) + 1
          /\ \A i \in SettlementIds : Settlements'[i] = Settlements[i]
          /\ LET new == Settlements'[Len(Settlements')] IN
               /\ new.status = "OWED"
               /\ new.TransactionGroup = Transactions[t].TransactionGroup
               /\ new.kind = Transactions[t].kind
               /\ new.deletedAt = NULL]_vars

\* a SETTLED settlement was reverted: it is still SETTLED and not deleted,
\* and the newest settlement is OWED, of another kind than the reverted one
C5_Witness ==
  /\ Reverted("SETTLED")
  /\ Settlements[last.s].status = "SETTLED"
  /\ Settlements[last.s].deletedAt = NULL
  /\ Settlements[Len(Settlements)].status = "OWED"
  /\ Settlements[Len(Settlements)].kind # Settlements[last.s].kind

\* C9: updateTransactionsSettlementStatus sets the status of exactly the
\* non-deleted settlements with the group and kind of one of the
\* transactions, writes their ExpenseId only when expenseId is passed, and
\* leaves every other settlement as it was (all of them when no transaction
\* is given).
C9_UpdateFrame ==
  [][( /\ last'.op = "updateTransactionsSettlementStatus"
       /\ updateTransactionsSettlementStatus(
            last'.transactions, last'.status, last'.expenseId) )
     => LET T == last'.transactions
            status == last'.status
            e == last'.expenseId
        IN
          /\ Len(Settlements') = Len(Settlements)
          /\ \A i \in SettlementIds :
               IF /\ Settlements[i].deletedAt = NULL
                  /\ \E t \in T : /\ Transactions[t].TransactionGroup =
                                       Settlements[i].TransactionGroup
                                  /\ Transactions[t].kind = Settlements[i].kind
               THEN /\ Settlements'[i].status = status
                    /\ Settlements'[i].ExpenseId =
                         IF e = Undefined THEN Settlements[i].ExpenseId ELSE e
                    /\ Settlements'[i].TransactionGroup = Settlements[i].TransactionGroup
                    /\ Settlements'[i].kind = Settlements[i].kind
                    /\ Settlements'[i].deletedAt = NULL
               ELSE Settlements'[i] = Settlements[i]]_vars

\* the settlements of the group and kind of one of the transactions of the
\* last update
LastUpdated ==
  {i \in SettlementIds :
     \E t \in last.transactions : SameGroupAndKind(Transactions[t], Settlements[i])}

\* an update with no expenseId set the status of one settlement, which keeps
\* its expense, and left another settlement (deleted, or of another
\* transaction) with the status it had
C9_Witness ==
  /\ last.op = "updateTransactionsSettlementStatus"
  /\ last.expenseId = Undefined
  /\ \E i \in LastUpdated :
       /\ Settlements[i].deletedAt = NULL
       /\ Settlements[i].status = last.status
       /\ Settlements[i].ExpenseId # NoExpense
  /\ \E i \in SettlementIds : Settlements[i].status # last.status

-----------------------------------------------------------------------------
(* Properties of the queries (SpecQuery) *)

IsLiveDebt(t) ==
  /\ Transactions[t].type = "CREDIT"
  /\ Transactions[t].isDebt
  /\ Transactions[t].deletedAt = NULL

\* C3: getHostDebts(hostId, settlementStatus) returns exactly the joins of a
\* non-deleted CREDIT debt transaction of host hostId with a non-deleted
\* settlement of its group and kind, of status settlementStatus when given.
C3_HostDebtsOfHost ==
  last.op = "getHostDebts" =>
    last.result =
      {r \in (DOMAIN Transactions) \X SettlementIds :
         /\ IsLiveDebt(r[1])
         /\ Transactions[r[1]].HostCollectiveId = last.hostId
         /\ Settlements[r[2]].deletedAt = NULL
         /\ Settlements[r[2]].TransactionGroup = Transactions[r[1]].TransactionGroup
         /\ Settlements[r[2]].kind = Transactions[r[1]].kind
         /\ last.settlementStatus \in {NULL, Settlements[r[2]].status}}

\* C8: getAccountsWithOwedSettlements returns, once each, exactly the
\* collectives with a non-deleted CREDIT debt transaction whose settlement
\* of the same group and kind is non-deleted and OWED.
C8_AccountsWithOwedSettlements ==
  last.op = "getAccountsWithOwedSettlements" =>
    /\ DOMAIN last.result =
         {c \in CollectiveIds :
            \E t \in DOMAIN Transactions, i \in SettlementIds :
              /\ Transactions[t].CollectiveId = c
              /\ IsLiveDebt(t)
              /\ Settlements[i].TransactionGroup = Transactions[t].TransactionGroup
              /\ Settlements[i].kind = Transactions[t].kind
              /\ Settlements[i].deletedAt = NULL
              /\ Settlements[i].status = "OWED"}
    /\ \A c \in DOMAIN last.result : last.result[c] = 1

\* the query returned a collective whose debt has two OWED settlements
C8_Witness ==
  /\ last.op = "getAccountsWithOwedSettlements"
  /\ DOMAIN last.result # {}
  /\ Cardinality(OwedJoin) = 2

-----------------------------------------------------------------------------
(* Properties of removeMember (SpecMember) *)

RemoveMemberArgs ==
  RemoteUsers \X CollectiveIds \X CollectiveIds \X (MemberRoles \cup {"undefined"})

\* C2: a successful removeMember(memberAccount, account, role) marks the
\* membership of memberAccount in account with that role deleted, and changes
\* no row of another member account or of another collective.
C2_RemovesTheMembership ==
  [][\A a \in RemoveMemberArgs :
       ( /\ removeMember(a[1], a[2], a[3], a[4])
         /\ last'.err = NoError )
       => \A id \in DOMAIN Members :
            /\ ( /\ Members[id].MemberCollectiveId = a[2]
                 /\ Members[id].CollectiveId = a[3]
                 /\ Members[id].role = a[4] )
               => Members'[id].deletedAt # NULL
            /\ ( \/ Members[id].MemberCollectiveId # a[2]
                 \/ Members[id].CollectiveId # a[3] )
               => Members'[id] = Members[id]]_vars

\* C6: with no logged-in user, or a user who is not an admin of the
\* collective, removeMember fails with Unauthorized and changes no row of
\* Members, whatever the role.
C6_UnauthorizedFirst ==
  [][( /\ last'.op = "removeMember"
       /\ (~last'.loggedIn \/ ~last'.isAdmin) )
     => /\ last'.err = "Unauthorized"
        /\ Members' = Members]_vars

\* a logged-in user who is no admin of the collective asked to remove a role
\* that cannot be removed, and got Unauthorized
C6_Witness ==
  /\ last.op = "removeMember"
  /\ last.err = "Unauthorized"
  /\ last.loggedIn
  /\ ~last.isAdmin
  /\ last.role = "BACKER"

====
